---- MODULE Spec2Model ----
(***************************************************************************)
(* Model of extraCredit05.js: the DFA enumerator (a generator), the DFA    *)
(* validator, the DFA -> TM-decider converter, the TM-decider simulator    *)
(* and the emptiness check (BFS).                                          *)
(*                                                                         *)
(* JavaScript values are modelled as follows.  Numbers are integers.       *)
(* Strings are strings.  An object is Obj(f), f the function from its      *)
(* property keys to their values; the value `undefined` is Undefined.      *)
(* Arrays are sequences (1-based here, 0-based in the source).             *)
(***************************************************************************)
EXTENDS Integers, Sequences, FiniteSets, TLC

\* ---------------------------------------------------------------------------
\* Bounds of the model
\* ---------------------------------------------------------------------------
MaxPulls == 70

MaxN == 2

MaxLen == 2
\* The pulls of a consumer that also writes into the DFAs it holds.
MaxSharedPulls == 4
\* The calls of validateDFA on one description.
MaxCalls == 2

\* Symbols a caller may use in alphabets and input strings.
Symbols == {"a", "b", "_"}

\* Alphabets handed to the functions: ordered, distinct, non-empty.
Alphabets == {<<"a", "b">>, <<"b">>, <<"a", "_">>}

\* Alphabets of the DFA descriptions handed to validateDFA.
ValidatorAlphabets == {<<"a", "b">>, <<"b">>}

\* ---------------------------------------------------------------------------
\* JavaScript values
\* ---------------------------------------------------------------------------
Undefined == [type |-> "undefined"]

Obj(f) == [type |-> "object", props |-> f]

Return(v) == [kind |-> "return", value |-> v]

Throw(e) == [kind |-> "throw", error |-> e]

\* A loop body that completed without returning or throwing.
Continue == [kind |-> "continue"]

Range(seq) == {seq[i] : i \in 1..Len(seq)}

\* The ascending sequence of the elements of a finite set of integers.
RECURSIVE SortedSeq(_)
SortedSeq(S) ==
    IF S = {} THEN <<>>
    ELSE LET x == CHOOSE y \in S : \A z \in S : y <= z
         IN  <<x>> \o SortedSeq(S \ {x})

\* ---------------------------------------------------------------------------
\* ENUMERATOR  (function* enumerateDFAs)
\* ---------------------------------------------------------------------------
\* 1 << n on 32-bit integers.
ShiftLeft1(n) ==
    LET m == n % 32
    IN  IF m = 31 THEN (-2147483647) - 1 ELSE 2 ^ m

\* mask & (1 << s) is non-zero (bit s % 32 of the 32-bit mask is set).
BitSet(mask, s) ==
    LET m == s % 32
    IN  IF m = 31 THEN mask < 0 ELSE (mask \div (2 ^ m)) % 2 = 1

\* Array(digitsLen).fill(0), indexed 0..digitsLen-1.
Zeros(digitsLen) == [i \in 0..(digitsLen - 1) |-> 0]

\* Mutant of incrementFrom: compares with n - 1, so a digit never reaches n - 1.
RECURSIVE incrementFromShort(_, _, _, _)
incrementFromShort(digits, n, digitsLen, i) ==
    IF i >= digitsLen
    THEN [digits |-> digits, more |-> FALSE]
    ELSE IF digits[i] + 1 < n - 1
         THEN [digits |-> [digits EXCEPT ![i] = digits[i] + 1], more |-> TRUE]
         ELSE incrementFromShort([digits EXCEPT ![i] = 0], n, digitsLen, i + 1)

\* The closure incrementDigits, from digit i on: the digits after the call and
\* the value it returns.
RECURSIVE incrementFrom(_, _, _, _)
incrementFrom(digits, n, digitsLen, i) ==
    IF i >= digitsLen
    THEN [digits |-> digits, more |-> FALSE]
    ELSE IF digits[i] + 1 < n
         THEN [digits |-> [digits EXCEPT ![i] = digits[i] + 1], more |-> TRUE]
         ELSE incrementFrom([digits EXCEPT ![i] = 0], n, digitsLen, i + 1)

\* Mutant of incrementDigits: the loop starts at digit 1.
incrementDigitsFromOne(digits, n, digitsLen) ==
    incrementFrom(digits, n, digitsLen, 1)

incrementDigits(digits, n, digitsLen) == incrementFrom(digits, n, digitsLen, 0)

\* The last index k (0-based) with alphabet[k] = sym: a later assignment to
\* row[alphabet[k]] overwrites an earlier one.
LastIndexOf(alphabet, sym) ==
    (CHOOSE k \in 1..Len(alphabet) :
        /\ alphabet[k] = sym
        /\ \A j \in (k + 1)..Len(alphabet) : alphabet[j] # sym) - 1

\* Mutant of BuildRow: idx = s + k instead of s * symCount + k.
BuildRowOverlap(alphabet, digits, s) ==
    Obj([sym \in Range(alphabet) |-> digits[s + LastIndexOf(alphabet, sym)]])

\* Mutant of BuildRow: the digit of (s, alphabet[k]) is at position k * n + s.
BuildRowTransposed(alphabet, digits, s) ==
    Obj([sym \in Range(alphabet) |->
            digits[LastIndexOf(alphabet, sym)
                     * (Cardinality(DOMAIN digits) \div Len(alphabet)) + s]])

\* The row built for state s.
BuildRow(alphabet, digits, s) ==
    Obj([sym \in Range(alphabet) |->
            digits[s * Len(alphabet) + LastIndexOf(alphabet, sym)]])

\* The transitions object built from the digit vector.
BuildTransitions(alphabet, n, digits) ==
    Obj([s \in 0..(n - 1) |-> BuildRow(alphabet, digits, s)])

\* The finals array built from the mask: the s in 0..n-1, ascending, whose bit
\* is set.
BuildFinals(n, mask) ==
    SortedSeq({s \in 0..(n - 1) : BitSet(mask, s)})

\* Mutant of BuildStates: (_, i) => i + 1.
BuildStatesOneBased(n) == [i \in 1..n |-> i]

\* Array.from({ length: n }, (_, i) => i)
BuildStates(n) == [i \in 1..n |-> i - 1]

\* The object yielded at the cursor g.
YieldedDFA(g) ==
    [states      |-> BuildStates(g.n),
     alphabet    |-> g.alphabet,
     start       |-> 0,
     finals      |-> BuildFinals(g.n, g.mask),
     transitions |-> BuildTransitions(g.alphabet, g.n, g.digits)]

\* The generator before its first resumption.
NewGenerator(alphabet) ==
    [alphabet |-> alphabet, started |-> FALSE, n |-> 1,
     digits |-> Zeros(Len(alphabet)), mask |-> 0]

\* Mutant of RunToYield: the loop test is mask <= finalCount.
RECURSIVE RunToYieldInclusive(_)
RunToYieldInclusive(g) ==
    IF g.mask <= ShiftLeft1(g.n)
    THEN g
    ELSE LET digitsLen == g.n * Len(g.alphabet)
             inc == incrementDigits(g.digits, g.n, digitsLen)
         IN  IF inc.more
             THEN RunToYieldInclusive([g EXCEPT !.digits = inc.digits, !.mask = 0])
             ELSE RunToYieldInclusive(
                     [g EXCEPT !.n = g.n + 1,
                               !.digits = Zeros((g.n + 1) * Len(g.alphabet)),
                               !.mask = 0])

\* Runs the generator from the test `mask < finalCount` to its next yield:
\* the cursor at which it suspends.
RECURSIVE RunToYield(_)
RunToYield(g) ==
    IF g.mask < ShiftLeft1(g.n)
    THEN g
    ELSE LET digitsLen == g.n * Len(g.alphabet)
             inc == incrementDigits(g.digits, g.n, digitsLen)
         IN  IF inc.more
             THEN RunToYield([g EXCEPT !.digits = inc.digits, !.mask = 0])
             ELSE RunToYield([g EXCEPT !.n = g.n + 1,
                                       !.digits = Zeros((g.n + 1) * Len(g.alphabet)),
                                       !.mask = 0])

\* ---------------------------------------------------------------------------
\* VALIDATION FUNCTION  (validateDFA)
\* ---------------------------------------------------------------------------
\* `key in obj`: a TypeError when obj is not an object.
InThrows(obj) == obj.type # "object"

In(key, obj) == key \in DOMAIN obj.props

\* Mutant of validateSymbols: the inner loop leaves out the last symbol.
RECURSIVE validateSymbolsShort(_, _, _)
validateSymbolsShort(dfa, s, k) ==
    IF k >= Len(dfa.alphabet)
    THEN Continue
    ELSE LET row == dfa.transitions.props[s]
             symbol == dfa.alphabet[k]
         IN  IF InThrows(row) THEN Throw("TypeError")
             ELSE IF ~In(symbol, row) THEN Return(0)
             ELSE IF row.props[symbol] \notin Range(dfa.states) THEN Return(0)
             ELSE validateSymbolsShort(dfa, s, k + 1)

\* The inner loop `for (const symbol of alphabet)` for state s, from the k-th
\* symbol on: Continue when the loop completes, else the result of validateDFA.
RECURSIVE validateSymbols(_, _, _)
validateSymbols(dfa, s, k) ==
    IF k > Len(dfa.alphabet)
    THEN Continue
    ELSE LET row == dfa.transitions.props[s]
             symbol == dfa.alphabet[k]
         IN  IF InThrows(row) THEN Throw("TypeError")
             ELSE IF ~In(symbol, row) THEN Return(0)
             ELSE IF row.props[symbol] \notin Range(dfa.states) THEN Return(0)
             ELSE validateSymbols(dfa, s, k + 1)

\* The outer loop `for (const s of states)`, from the i-th state on.
RECURSIVE validateStates(_, _)
validateStates(dfa, i) ==
    IF i > Len(dfa.states)
    THEN Return(1)
    ELSE LET s == dfa.states[i]
         IN  IF InThrows(dfa.transitions) THEN Throw("TypeError")
             ELSE IF ~In(s, dfa.transitions) THEN Return(0)
             ELSE LET r == validateSymbols(dfa, s, 1)
                  IN  IF r = Continue THEN validateStates(dfa, i + 1) ELSE r

validateDFA(dfa) ==
    IF dfa.start \notin Range(dfa.states) THEN Return(0)
    ELSE IF \E i \in 1..Len(dfa.finals) : dfa.finals[i] \notin Range(dfa.states)
         THEN Return(0)
         ELSE validateStates(dfa, 1)

\* ---------------------------------------------------------------------------
\* DFA -> TM DECIDER  (convertDFAtoTM)
\* ---------------------------------------------------------------------------
convertDFAtoTM(dfa) ==
    [states         |-> dfa.states,
     start          |-> dfa.start,
     finals         |-> dfa.finals,
     dfaTransitions |-> dfa.transitions,
     blank          |-> "_"]

\* ---------------------------------------------------------------------------
\* TM-D SIMULATOR  (simulateTM)
\* ---------------------------------------------------------------------------
\* The value `undefined` in the variable `state`, whose other values are the
\* non-negative state identifiers.
UndefinedState == -1

\* The entry logConfig(action) pushes: the values it interpolates into the
\* string (state, tape.join(""), head spaces before the marker, the action).
Config(c, action) ==
    [state |-> c.state, tape |-> c.tape, head |-> c.head, action |-> action]

\* simulateTM up to and including logConfig("Start").  `iterations` counts the
\* passes through the body of `while (true)`.
simStart(tm, input) ==
    LET c == [tape |-> input, head |-> 0, state |-> tm.start]
    IN  [tape |-> input, head |-> 0, state |-> tm.start,
         configs |-> <<Config(c, [label |-> "Start"])>>,
         pc |-> "loop", iterations |-> 0]

\* tm.dfaTransitions[state][symbol]: a TypeError when tm.dfaTransitions or
\* tm.dfaTransitions[state] is undefined, `undefined` when the row has no
\* such property.
Lookup(tm, state, symbol) ==
    IF tm.dfaTransitions.type # "object" THEN Throw("TypeError")
    ELSE IF state \notin DOMAIN tm.dfaTransitions.props THEN Throw("TypeError")
    ELSE LET row == tm.dfaTransitions.props[state]
         IN  IF row.type # "object" THEN Throw("TypeError")
             ELSE IF symbol \in DOMAIN row.props
                  THEN Return(row.props[symbol])
                  ELSE Return(UndefinedState)

\* Mutant of simStep: the cell read is overwritten with the blank.
simStepErase(tm, c) ==
    LET symbol == IF c.head < Len(c.tape) THEN c.tape[c.head + 1] ELSE tm.blank
    IN  IF symbol = tm.blank
        THEN LET decision == IF c.state \in Range(tm.finals)
                             THEN "ACCEPT" ELSE "REJECT"
             IN  [c EXCEPT !.configs = Append(c.configs,
                                 Config(c, [label |-> "Decision",
                                            decision |-> decision])),
                           !.pc = "done",
                           !.iterations = c.iterations + 1] @@
                 [decision |-> decision]
        ELSE LET next == Lookup(tm, c.state, symbol)
             IN  IF next.kind = "throw"
                 THEN [c EXCEPT !.pc = "threw",
                                !.iterations = c.iterations + 1]
                 ELSE [c EXCEPT !.configs = Append(c.configs,
                                     Config(c, [label |-> "Read",
                                                symbol |-> symbol,
                                                nextState |-> next.value])),
                                !.tape = [c.tape EXCEPT ![c.head + 1] = tm.blank],
                                !.state = next.value,
                                !.head = c.head + 1,
                                !.iterations = c.iterations + 1]

\* One pass through the body of `while (true)`.
simStep(tm, c) ==
    LET symbol == IF c.head < Len(c.tape) THEN c.tape[c.head + 1] ELSE tm.blank
    IN  IF symbol = tm.blank
        THEN LET decision == IF c.state \in Range(tm.finals)
                             THEN "ACCEPT" ELSE "REJECT"
             IN  [c EXCEPT !.configs = Append(c.configs,
                                 Config(c, [label |-> "Decision",
                                            decision |-> decision])),
                           !.pc = "done",
                           !.iterations = c.iterations + 1] @@
                 [decision |-> decision]
        ELSE LET next == Lookup(tm, c.state, symbol)
             IN  IF next.kind = "throw"
                 THEN [c EXCEPT !.pc = "threw",
                                !.iterations = c.iterations + 1]
                 ELSE [c EXCEPT !.configs = Append(c.configs,
                                     Config(c, [label |-> "Read",
                                                symbol |-> symbol,
                                                nextState |-> next.value])),
                                !.state = next.value,
                                !.head = c.head + 1,
                                !.iterations = c.iterations + 1]

\* simulateTM from the configuration c to its return or its throw.
RECURSIVE simRun(_, _)
simRun(tm, c) == IF c.pc = "loop" THEN simRun(tm, simStep(tm, c)) ELSE c

simulateTM(tm, input) == simRun(tm, simStart(tm, input))

\* ---------------------------------------------------------------------------
\* EMPTINESS CHECK  (dfaRecognizesEmpty)
\* ---------------------------------------------------------------------------
\* The function up to the first test of the while loop.  `dequeues` counts the
\* calls of queue.shift().
bfsStart(dfa) ==
    [queue |-> <<dfa.start>>, visited |-> {dfa.start}, pc |-> "loop",
     dequeues |-> 0]

\* Mutant of bfsExplore: the loop stops one symbol short of the alphabet's end.
RECURSIVE bfsExploreShort(_, _, _, _)
bfsExploreShort(dfa, state, k, b) ==
    IF k >= Len(dfa.alphabet)
    THEN b
    ELSE LET nxt == dfa.transitions.props[state].props[dfa.alphabet[k]]
         IN  IF nxt \notin b.visited
             THEN bfsExploreShort(dfa, state, k + 1,
                     [b EXCEPT !.visited = b.visited \cup {nxt},
                               !.queue = Append(b.queue, nxt)])
             ELSE bfsExploreShort(dfa, state, k + 1, b)

\* Mutant of bfsExplore: a successor is queued without being added to visited.
RECURSIVE bfsExploreNoMark(_, _, _, _)
bfsExploreNoMark(dfa, state, k, b) ==
    IF k > Len(dfa.alphabet)
    THEN b
    ELSE LET nxt == dfa.transitions.props[state].props[dfa.alphabet[k]]
         IN  IF nxt \notin b.visited
             THEN bfsExploreNoMark(dfa, state, k + 1,
                     [b EXCEPT !.queue = Append(b.queue, nxt)])
             ELSE bfsExploreNoMark(dfa, state, k + 1, b)

\* `for (const sym of alphabet)` from the k-th symbol on, for the dequeued
\* state: the queue and the visited set after the loop.
RECURSIVE bfsExplore(_, _, _, _)
bfsExplore(dfa, state, k, b) ==
    IF k > Len(dfa.alphabet)
    THEN b
    ELSE LET nxt == dfa.transitions.props[state].props[dfa.alphabet[k]]
         IN  IF nxt \notin b.visited
             THEN bfsExplore(dfa, state, k + 1,
                     [b EXCEPT !.visited = b.visited \cup {nxt},
                               !.queue = Append(b.queue, nxt)])
             ELSE bfsExplore(dfa, state, k + 1, b)

\* Mutant of bfsStep: the successors of the dequeued state are explored before
\* the test for membership in finals.
bfsStepExploreFirst(dfa, b) ==
    IF Len(b.queue) = 0
    THEN [b EXCEPT !.pc = "done"] @@ [result |-> TRUE]
    ELSE LET state == Head(b.queue)
             shifted == [b EXCEPT !.queue = Tail(b.queue),
                                  !.dequeues = b.dequeues + 1]
             explored == bfsExplore(dfa, state, 1, shifted)
         IN  IF state \in Range(dfa.finals)
             THEN [explored EXCEPT !.pc = "done"] @@ [result |-> FALSE]
             ELSE explored

\* The test of `while (queue.length > 0)` and, when it holds, one pass through
\* the body; when it fails, `return true`.
bfsStep(dfa, b) ==
    IF Len(b.queue) = 0
    THEN [b EXCEPT !.pc = "done"] @@ [result |-> TRUE]
    ELSE LET state == Head(b.queue)
             shifted == [b EXCEPT !.queue = Tail(b.queue),
                                  !.dequeues = b.dequeues + 1]
         IN  IF state \in Range(dfa.finals)
             THEN [shifted EXCEPT !.pc = "done"] @@ [result |-> FALSE]
             ELSE bfsExplore(dfa, state, 1, shifted)

RECURSIVE bfsRun(_, _)
bfsRun(dfa, b) == IF b.pc = "loop" THEN bfsRun(dfa, bfsStep(dfa, b)) ELSE b

dfaRecognizesEmpty(dfa) == bfsRun(dfa, bfsStart(dfa)).result

\* ---------------------------------------------------------------------------
\* Well-formed DFAs (the data model: start in states, finals a subset of
\* states, transitions total with targets in states), finals listed ascending
\* ---------------------------------------------------------------------------
TotalRows(alphabet, n) == {Obj(r) : r \in [Range(alphabet) -> 0..(n - 1)]}

TotalTransitions(alphabet, n) ==
    {Obj(t) : t \in [0..(n - 1) -> TotalRows(alphabet, n)]}

WellFormedDFAs(alphabet, n) ==
    {[states |-> BuildStates(n), alphabet |-> alphabet, start |-> st,
      finals |-> SortedSeq(F), transitions |-> T] :
        st \in 0..(n - 1), F \in SUBSET (0..(n - 1)),
        T \in TotalTransitions(alphabet, n)}


\* The DFAs a caller passes on after validation.
ValidDFAs ==
    {d \in UNION {WellFormedDFAs(alphabet, n) :
                     alphabet \in Alphabets, n \in 1..MaxN} :
        validateDFA(d) = Return(1)}

\* Input strings, split into their characters.
Inputs == UNION {[1..l -> Symbols] : l \in 0..MaxLen}

\* A transitions value of a DFA description: undefined, or an object with
\* rows for some of the keys, each row undefined or an object with entries
\* for some of the symbols.
PartialObjects(keys, values) ==
    {Obj(f) : f \in UNION {[K -> values] : K \in SUBSET keys}}

TransitionTables(alphabet, n) ==
    {Undefined} \cup
    PartialObjects(0..(n - 1),
        {Undefined} \cup PartialObjects(Range(alphabet), 0..n))

\* A DFA description with states 0..n-1: its start and its finals are among
\* 0..n, so either may name a state that does not exist.
Description(alphabet, n, st, F, T) ==
    [states |-> BuildStates(n), alphabet |-> alphabet, start |-> st,
     finals |-> SortedSeq(F), transitions |-> T]

\* ---------------------------------------------------------------------------
\* State
\* ---------------------------------------------------------------------------
\* ---------------------------------------------------------------------------
\* Object identity of the yielded DFAs
\* ---------------------------------------------------------------------------
\* The yielded object literal puts fresh arrays in `states` and `finals` and
\* the generator's local `transitions` in `transitions`.  The heap lists the
\* transitions objects in the order `const transitions = {}` built them
\* (tables) and, for each yielded DFA, the index of the one it refers to
\* (owner); the generator's local is the last of tables.
EmptyHeap == [tables |-> <<>>, owner |-> <<>>]

\* The heap after a yield at the cursor g; built tells whether the generator
\* came through `const transitions = {}` on its way to this yield.
HeapAfterYield(h, g, built) ==
    LET tables == IF built
                  THEN Append(h.tables,
                              BuildTransitions(g.alphabet, g.n, g.digits))
                  ELSE h.tables
    IN  [tables |-> tables, owner |-> Append(h.owner, Len(tables))]

\* The yielded DFA as its holder reads it: `transitions` is whatever the
\* object it refers to holds now.
ReadDFA(d, h, j) == [d EXCEPT !.transitions = h.tables[h.owner[j]]]

\* The heap after `d.transitions[s][sym] = v` on the j-th yielded DFA.
WriteEntry(h, j, s, sym, v) ==
    [h EXCEPT !.tables[h.owner[j]].props[s].props[sym] = v]

VARIABLES
    gen,        \* the enumerator's cursor (the suspended generator)
    produced,   \* the DFAs the generator has yielded so far, in order
    dfa,        \* the DFA (description) passed to validateDFA,
                \* convertDFAtoTM or dfaRecognizesEmpty
    val,        \* the outcome of validateDFA(dfa)
    input,      \* the string passed to simulateTM
    tm,         \* the decider convertDFAtoTM(dfa) returned
    sim,        \* the locals of the running simulateTM call
    bfs,        \* the locals of the running dfaRecognizesEmpty call
    heap,       \* the transitions objects the generator has built, and which
                \* of them each produced DFA refers to
    results     \* the values a caller got from its calls of validateDFA(dfa),
                \* each with the other functions it had called before

vars == <<gen, produced, dfa, val, input, tm, sim, bfs, heap, results>>

\* A function that has not been called.
Idle == [pc |-> "idle"]

\* ---------------------------------------------------------------------------
\* The enumerator pulled by a consumer
\* ---------------------------------------------------------------------------
InitEnum ==
    /\ \E alphabet \in Alphabets : gen = NewGenerator(alphabet)
    /\ produced = <<>>
    /\ dfa = Idle /\ val = Idle /\ input = <<>> /\ tm = Idle
    /\ sim = Idle /\ bfs = Idle
    /\ heap = Idle /\ results = <<>>

\* First next(): runs from the top of the function to the first yield.
PullFirst ==
    /\ ~gen.started
    /\ Len(produced) < MaxPulls
    /\ gen' = RunToYield([gen EXCEPT !.started = TRUE])
    /\ produced' = Append(produced, YieldedDFA(gen'))
    /\ UNCHANGED <<dfa, val, input, tm, sim, bfs, heap, results>>

\* A later next(): resumes after the yield (mask++) and runs to the next one.
PullResume ==
    /\ gen.started
    /\ Len(produced) < MaxPulls
    /\ gen' = RunToYield([gen EXCEPT !.mask = gen.mask + 1])
    /\ produced' = Append(produced, YieldedDFA(gen'))
    /\ UNCHANGED <<dfa, val, input, tm, sim, bfs, heap, results>>

NextEnum == PullFirst \/ PullResume

SpecEnum == InitEnum /\ [][NextEnum]_vars

\* ---------------------------------------------------------------------------
\* validateDFA called on a DFA description
\* ---------------------------------------------------------------------------
InitValidate ==
    /\ \E alphabet \in ValidatorAlphabets, n \in 1..MaxN :
          \E st \in 0..n, F \in SUBSET (0..n),
             T \in TransitionTables(alphabet, n) :
              dfa = Description(alphabet, n, st, F, T)
    /\ val = Idle
    /\ gen = Idle /\ produced = <<>> /\ input = <<>> /\ tm = Idle
    /\ sim = Idle /\ bfs = Idle
    /\ heap = Idle /\ results = <<>>

CallValidate ==
    /\ val = Idle
    /\ val' = validateDFA(dfa)
    /\ UNCHANGED <<gen, produced, dfa, input, tm, sim, bfs, heap, results>>

NextValidate == CallValidate

SpecValidate == InitValidate /\ [][NextValidate]_vars

\* ---------------------------------------------------------------------------
\* simulateTM run on the decider of a validated DFA
\* ---------------------------------------------------------------------------
InitSim ==
    /\ dfa \in ValidDFAs
    /\ input \in Inputs
    /\ tm = Idle /\ sim = Idle
    /\ gen = Idle /\ produced = <<>> /\ val = Idle /\ bfs = Idle
    /\ heap = Idle /\ results = <<>>

\* const TM = convertDFAtoTM(dfa)
CallConvert ==
    /\ tm = Idle
    /\ tm' = convertDFAtoTM(dfa)
    /\ UNCHANGED <<gen, produced, dfa, val, input, sim, bfs, heap, results>>

\* simulateTM(TM, input), to the first test of the loop.
CallSimulate ==
    /\ tm # Idle
    /\ sim = Idle
    /\ sim' = simStart(tm, input)
    /\ UNCHANGED <<gen, produced, dfa, val, input, tm, bfs, heap, results>>

\* One iteration of the loop of simulateTM.
StepSimulate ==
    /\ sim.pc = "loop"
    /\ sim' = simStep(tm, sim)
    /\ UNCHANGED <<gen, produced, dfa, val, input, tm, bfs, heap, results>>

NextSim == CallConvert \/ CallSimulate \/ StepSimulate

SpecSim == InitSim /\ [][NextSim]_vars

\* ---------------------------------------------------------------------------
\* dfaRecognizesEmpty run on a validated DFA
\* ---------------------------------------------------------------------------
InitEmpty ==
    /\ dfa \in ValidDFAs
    /\ bfs = Idle
    /\ gen = Idle /\ produced = <<>> /\ val = Idle /\ input = <<>>
    /\ tm = Idle /\ sim = Idle
    /\ heap = Idle /\ results = <<>>

CallEmpty ==
    /\ bfs = Idle
    /\ bfs' = bfsStart(dfa)
    /\ UNCHANGED <<gen, produced, dfa, val, input, tm, sim, heap, results>>

\* One test of the while loop of dfaRecognizesEmpty, with its iteration.
StepEmpty ==
    /\ bfs.pc = "loop"
    /\ bfs' = bfsStep(dfa, bfs)
    /\ UNCHANGED <<gen, produced, dfa, val, input, tm, sim, heap, results>>

NextEmpty == CallEmpty \/ StepEmpty

SpecEmpty == InitEmpty /\ [][NextEmpty]_vars

\* ---------------------------------------------------------------------------
\* The enumerator pulled by a consumer that writes into the DFAs it was given
\* ---------------------------------------------------------------------------
InitShare ==
    /\ \E alphabet \in Alphabets : gen = NewGenerator(alphabet)
    /\ produced = <<>>
    /\ heap = EmptyHeap
    /\ dfa = Idle /\ val = Idle /\ input = <<>> /\ tm = Idle
    /\ sim = Idle /\ bfs = Idle /\ results = <<>>

\* First next(): builds the first transitions object and yields.
SharePullFirst ==
    /\ ~gen.started
    /\ Len(produced) < MaxSharedPulls
    /\ gen' = RunToYield([gen EXCEPT !.started = TRUE])
    /\ heap' = HeapAfterYield(heap, gen', TRUE)
    /\ produced' = Append(produced,
                          ReadDFA(YieldedDFA(gen'), heap', Len(produced) + 1))
    /\ UNCHANGED <<dfa, val, input, tm, sim, bfs, results>>

\* A later next(): mask++, then the next yield.  The generator leaves the
\* loop over the masks, and builds a new transitions object, exactly when
\* the digit vector or the state count moves on.
SharePullResume ==
    /\ gen.started
    /\ Len(produced) < MaxSharedPulls
    /\ gen' = RunToYield([gen EXCEPT !.mask = gen.mask + 1])
    /\ heap' = HeapAfterYield(heap, gen',
                              gen'.n # gen.n \/ gen'.digits # gen.digits)
    /\ produced' = Append(produced,
                          ReadDFA(YieldedDFA(gen'), heap', Len(produced) + 1))
    /\ UNCHANGED <<dfa, val, input, tm, sim, bfs, results>>

\* Between two pulls the consumer assigns to an entry of the transitions of a
\* DFA it holds: every holder of the same object reads the new value.
ConsumerWriteEntry ==
    /\ \E j \in 1..Len(produced) :
          \E s \in Range(produced[j].states),
             sym \in Range(produced[j].alphabet),
             v \in 0..Len(produced[j].states) :
              /\ produced[j].transitions.props[s].props[sym] # v
              /\ heap' = WriteEntry(heap, j, s, sym, v)
              /\ produced' = [i \in 1..Len(produced) |->
                                  ReadDFA(produced[i], heap', i)]
    /\ UNCHANGED <<gen, dfa, val, input, tm, sim, bfs, results>>

\* Between two pulls the consumer assigns to an element of the finals of a
\* DFA it holds; the array was built for that DFA alone.
ConsumerWriteFinal ==
    /\ \E j \in 1..Len(produced) :
          \E i \in 1..Len(produced[j].finals),
             v \in 0..Len(produced[j].states) :
              /\ produced[j].finals[i] # v
              /\ produced' = [produced EXCEPT ![j].finals[i] = v]
    /\ UNCHANGED <<gen, heap, dfa, val, input, tm, sim, bfs, results>>

NextShare ==
    \/ SharePullFirst
    \/ SharePullResume
    \/ ConsumerWriteEntry
    \/ ConsumerWriteFinal

SpecShare == InitShare /\ [][NextShare]_vars

\* ---------------------------------------------------------------------------
\* validateDFA called repeatedly, the other functions called in between
\* ---------------------------------------------------------------------------
\* The description has total transitions into its states and finals among its
\* states; its start may name a state that does not exist.  The input is the
\* string of the alphabet's symbols.
InitRepeat ==
    /\ \E alphabet \in ValidatorAlphabets, n \in 1..MaxN :
          \E st \in 0..n, F \in SUBSET (0..(n - 1)),
             T \in TotalTransitions(alphabet, n) :
              /\ dfa = Description(alphabet, n, st, F, T)
              /\ input = alphabet
    /\ results = <<>>
    /\ val = Idle /\ tm = Idle /\ sim = Idle /\ bfs = Idle
    /\ gen = Idle /\ produced = <<>> /\ heap = Idle

\* The functions other than validateDFA that were called on the description.
OpsDone ==
    {op \in {"convertDFAtoTM", "simulateTM", "dfaRecognizesEmpty"} :
        \/ op = "convertDFAtoTM" /\ tm # Idle
        \/ op = "simulateTM" /\ sim # Idle
        \/ op = "dfaRecognizesEmpty" /\ bfs # Idle}

\* The caller found the description valid.
Validated == results # <<>> /\ results[1].value = Return(1)

\* Mutant of RepeatValidate: the call empties dfa.finals as it checks them.
RepeatValidateConsuming ==
    /\ Len(results) < MaxCalls
    /\ val' = validateDFA(dfa)
    /\ results' = Append(results, [value |-> val', after |-> OpsDone])
    /\ dfa' = [dfa EXCEPT !.finals = <<>>]
    /\ UNCHANGED <<gen, produced, input, tm, sim, bfs, heap>>

\* validateDFA(dfa): reads the description, returns.
RepeatValidate ==
    /\ Len(results) < MaxCalls
    /\ val' = validateDFA(dfa)
    /\ results' = Append(results, [value |-> val', after |-> OpsDone])
    /\ UNCHANGED <<gen, produced, dfa, input, tm, sim, bfs, heap>>

\* convertDFAtoTM(dfa)
RepeatConvert ==
    /\ tm = Idle
    /\ tm' = convertDFAtoTM(dfa)
    /\ UNCHANGED <<gen, produced, dfa, val, input, sim, bfs, heap, results>>

\* simulateTM(TM, input) on the decider of a description found valid.
RepeatSimulate ==
    /\ Validated
    /\ tm # Idle
    /\ sim = Idle
    /\ sim' = simulateTM(tm, input)
    /\ UNCHANGED <<gen, produced, dfa, val, input, tm, bfs, heap, results>>

\* dfaRecognizesEmpty(dfa) on a description found valid.
RepeatEmpty ==
    /\ Validated
    /\ bfs = Idle
    /\ bfs' = bfsRun(dfa, bfsStart(dfa))
    /\ UNCHANGED <<gen, produced, dfa, val, input, tm, sim, heap, results>>

NextRepeat ==
    \/ RepeatValidate
    \/ RepeatConvert
    \/ RepeatSimulate
    \/ RepeatEmpty

SpecRepeat == InitRepeat /\ [][NextRepeat]_vars

\* n^(n*k) * 2^n: the DFAs with n states, start 0, over k symbols.
CountFor(n, k) == (n ^ (n * k)) * (2 ^ n)

\* The DFAs with at most n states, start 0, over k symbols.
RECURSIVE CountUpTo(_, _)
CountUpTo(n, k) == IF n = 0 THEN 0 ELSE CountUpTo(n - 1, k) + CountFor(n, k)

NumStates(d) == Len(d.states)

ProducedWith(m) == {i \in 1..Len(produced) : NumStates(produced[i]) = m}

\* ---------------------------------------------------------------------------
\* Claims about the enumerator
\* ---------------------------------------------------------------------------
\* C1 (as stated): every well-formed DFA with m states, whatever its start
\* state, has been produced by the time the enumerator yields a DFA with more
\* than m states (the state counts of the outputs never decrease, so a DFA
\* with m states that is missing then is never produced).
C1_AnyStartProduced ==
    \A m \in 1..(MaxN + 1) :
        (\E i \in 1..Len(produced) : NumStates(produced[i]) > m) =>
            \A d \in WellFormedDFAs(gen.alphabet, m) : d \in Range(produced)

\* C1 (amended): every well-formed DFA with m states and start state 0 has
\* been produced after CountUpTo(m, k) pulls, a finite number.
C1_StartZeroProduced ==
    \A m \in 1..(MaxN + 1) :
        Len(produced) >= CountUpTo(m, Len(gen.alphabet)) =>
            \A d \in WellFormedDFAs(gen.alphabet, m) :
                d.start = 0 => d \in Range(produced)

\* All two-state DFAs over a two-symbol alphabet have had their turn.
C1_Witness ==
    /\ Len(gen.alphabet) = 2
    /\ Len(produced) >= CountUpTo(2, 2)
    /\ \E i \in 1..Len(produced) :
          /\ NumStates(produced[i]) = 2
          /\ produced[i].finals = <<0, 1>>
          /\ produced[i].transitions.props[1].props[gen.alphabet[2]] = 1

\* C2: no two DFAs of the produced sequence are equal.
C2_NoDuplicates ==
    \A i, j \in 1..Len(produced) : i # j => produced[i] # produced[j]

\* Several DFAs with the same state count and several digit vectors are out.
C2_Witness ==
    /\ Len(produced) >= 40
    /\ \E i, j \in 1..Len(produced) :
          /\ produced[i].transitions # produced[j].transitions
          /\ produced[i].finals = produced[j].finals
          /\ NumStates(produced[i]) = NumStates(produced[j])

\* C3: validateDFA returns 1 on every produced DFA.
C3_ProducedValid ==
    \A i \in 1..Len(produced) : validateDFA(produced[i]) = Return(1)

\* A produced DFA with two states, a final state and a transition to state 1
\* has been validated.
C3_Witness ==
    \E i \in 1..Len(produced) :
        /\ NumStates(produced[i]) = 2
        /\ produced[i].finals # <<>>
        /\ \E sym \in Range(gen.alphabet) :
              produced[i].transitions.props[0].props[sym] = 1
        /\ validateDFA(produced[i]) = Return(1)

SingleStateDFA(alphabet, finals) ==
    [states |-> <<0>>, alphabet |-> alphabet, start |-> 0, finals |-> finals,
     transitions |-> Obj((0 :> Obj([sym \in Range(alphabet) |-> 0])))]

\* C11: over a two-symbol alphabet the first output is the single-state DFA
\* with finals = {}, the second the same DFA with finals = {0}, and the third
\* output has two states (all transitions to state 0, finals = {}).
C11_FirstOutputs ==
    Len(gen.alphabet) = 2 =>
        /\ Len(produced) >= 1 =>
              produced[1] = SingleStateDFA(gen.alphabet, <<>>)
        /\ Len(produced) >= 2 =>
              produced[2] = SingleStateDFA(gen.alphabet, <<0>>)
        /\ Len(produced) >= 3 =>
              /\ produced[3].states = <<0, 1>>
              /\ produced[3].start = 0
              /\ produced[3].finals = <<>>
              /\ \A s \in {0, 1} : \A sym \in Range(gen.alphabet) :
                    produced[3].transitions.props[s].props[sym] = 0

\* Three DFAs over a two-symbol alphabet are out.
C11_Witness ==
    /\ Len(gen.alphabet) = 2
    /\ Len(produced) = 3
    /\ NumStates(produced[2]) = 1
    /\ NumStates(produced[3]) = 2

\* The digit at position p of the digit vector the DFA d was built from:
\* position s * |alphabet| + k holds transitions(s, alphabet[k]) (k from 0).
DigitAt(d, p) ==
    d.transitions.props[p \div Len(d.alphabet)]
                 .props[d.alphabet[(p % Len(d.alphabet)) + 1]]

\* The number the digit vector of d denotes in base n, position 0 being the
\* least significant digit: the sum of the digits at positions p and above,
\* divided by n^p.
RECURSIVE DigitValue(_, _)
DigitValue(d, p) ==
    IF p >= NumStates(d) * Len(d.alphabet)
    THEN 0
    ELSE DigitAt(d, p) + NumStates(d) * DigitValue(d, p + 1)

\* The bitmask of the finals of d: bit s is set iff s is final.
RECURSIVE MaskFrom(_, _)
MaskFrom(d, s) ==
    IF s >= NumStates(d)
    THEN 0
    ELSE (IF s \in Range(d.finals) THEN 1 ELSE 0) + 2 * MaskFrom(d, s + 1)

\* The place of d among the DFAs with its number of states: 2^n masks for
\* each value of the odometer.
Ordinal(d) == DigitValue(d, 0) * (2 ^ NumStates(d)) + MaskFrom(d, 0)

HasEntry(d, s, sym) ==
    /\ d.transitions.type = "object"
    /\ s \in DOMAIN d.transitions.props
    /\ d.transitions.props[s].type = "object"
    /\ sym \in DOMAIN d.transitions.props[s].props

\* The well-formedness invariant of the data model.
WellFormed(d) ==
    /\ d.start \in Range(d.states)
    /\ \A i \in 1..Len(d.finals) : d.finals[i] \in Range(d.states)
    /\ \A s \in Range(d.states) : \A sym \in Range(d.alphabet) :
          /\ HasEntry(d, s, sym)
          /\ d.transitions.props[s].props[sym] \in Range(d.states)

\* C4: validateDFA returns 1 when the description is well-formed and returns
\* 0 in every other case.
C4_ValidateIffWellFormed ==
    val # Idle =>
        IF WellFormed(dfa) THEN val = Return(1) ELSE val = Return(0)

\* C5: validateDFA never raises an error: every call returns 0 or 1.
C5_NeverThrows ==
    val # Idle => (val.kind = "return" /\ val.value \in {0, 1})

\* The (state, symbol) pairs for which transitions has no entry.
MissingEntries(d) ==
    {p \in Range(d.states) \X Range(d.alphabet) : ~HasEntry(d, p[1], p[2])}

\* d is a valid DFA from which exactly one transition entry was removed:
\* start, finals and every entry left are as in a valid DFA, every row is
\* there, and one (state, symbol) pair has no entry.
OneEntryRemoved(d) ==
    /\ d.start \in Range(d.states)
    /\ \A i \in 1..Len(d.finals) : d.finals[i] \in Range(d.states)
    /\ d.transitions.type = "object"
    /\ \A s \in Range(d.states) :
          /\ s \in DOMAIN d.transitions.props
          /\ d.transitions.props[s].type = "object"
          /\ \A sym \in DOMAIN d.transitions.props[s].props :
                d.transitions.props[s].props[sym] \in Range(d.states)
    /\ Cardinality(MissingEntries(d)) = 1

\* C15: validateDFA returns 0 on a valid DFA from which one transition entry
\* was removed.
C15_RemovedEntryRejected ==
    (val # Idle /\ OneEntryRemoved(dfa)) => val = Return(0)

\* A two-state DFA over two symbols has lost its last entry and was rejected.
C15_Witness ==
    /\ val = Return(0)
    /\ OneEntryRemoved(dfa)
    /\ NumStates(dfa) = 2
    /\ Len(dfa.alphabet) = 2
    /\ MissingEntries(dfa) = {<<1, dfa.alphabet[2]>>}

\* ---------------------------------------------------------------------------
\* Claims about the simulator
\* ---------------------------------------------------------------------------
\* The state the DFA d is in after reading w[i..Len(w)] from state q.
RECURSIVE DeltaStar(_, _, _, _)
DeltaStar(d, q, w, i) ==
    IF i > Len(w) THEN q
    ELSE DeltaStar(d, d.transitions.props[q].props[w[i]], w, i + 1)

OverAlphabet(w, alphabet) == \A i \in 1..Len(w) : w[i] \in Range(alphabet)

SimEnded == sim # Idle /\ sim.pc # "loop"

\* C6: for every input string simulateTM halts (returns) after exactly
\* len(input) + 1 loop iterations, with a trace of len(input) + 2 entries: one
\* Start entry, one Read entry per input symbol, one Decision entry.
C6_IterationsAndTraceLength ==
    /\ sim # Idle => sim.iterations <= Len(input) + 1
    /\ SimEnded =>
          /\ sim.pc = "done"
          /\ sim.iterations = Len(input) + 1
          /\ Len(sim.configs) = Len(input) + 2
          /\ sim.configs[1].action.label = "Start"
          /\ \A i \in 1..Len(input) :
                /\ sim.configs[i + 1].action.label = "Read"
                /\ sim.configs[i + 1].action.symbol = input[i]
          /\ sim.configs[Len(input) + 2].action.label = "Decision"

\* C7: for every valid DFA and input over its alphabet, simulateTM returns
\* ACCEPT when the DFA's run over the whole input ends in a final state and
\* REJECT otherwise.
C7_DecisionIsDfaAcceptance ==
    (SimEnded /\ OverAlphabet(input, dfa.alphabet)) =>
        /\ sim.pc = "done"
        /\ sim.decision =
              IF DeltaStar(dfa, dfa.start, input, 1) \in Range(dfa.finals)
              THEN "ACCEPT" ELSE "REJECT"

\* A run of simulateTM on an input over the alphabet of the DFA.
RunOverAlphabet == sim # Idle /\ OverAlphabet(input, dfa.alphabet)

\* The number of symbols consumed: the Read entries of the trace.
Consumed ==
    Cardinality({i \in 1..Len(sim.configs) :
                    sim.configs[i].action.label = "Read"})

\* The tape, in the locals and in every trace entry, is the input; the Start
\* entry has head 0 and each later entry, logged before the head moves, has
\* the head one cell to the right of the entry before it (the first Read
\* entry sharing cell 0 with Start); the head is the number of symbols
\* consumed; the state, in the locals and in every entry, is one of the
\* decider's states; the decider is the record convertDFAtoTM returned.
RunInv ==
    RunOverAlphabet =>
        /\ sim.pc \in {"loop", "done"}
        /\ sim.tape = input
        /\ \A i \in 1..Len(sim.configs) :
              /\ sim.configs[i].tape = input
              /\ sim.configs[i].state \in Range(tm.states)
              /\ sim.configs[i].head = (IF i = 1 THEN 0 ELSE i - 2)
        /\ sim.head = Consumed
        /\ sim.head <= Len(input)
        /\ sim.state \in Range(tm.states)
        /\ tm = convertDFAtoTM(dfa)

\* A step of the run keeps the decider, appends to the trace, and moves the
\* head one cell to the right when it consumes a symbol and not at all when
\* it decides.
RunStep ==
    RunOverAlphabet =>
        /\ tm' = tm
        /\ Len(sim'.configs) = Len(sim.configs) + 1
        /\ SubSeq(sim'.configs, 1, Len(sim.configs)) = sim.configs
        /\ sim'.tape = sim.tape
        /\ IF sim'.pc = "done"
           THEN sim'.head = sim.head
           ELSE sim'.head = sim.head + 1

\* C19: during simulateTM on the decider of a valid DFA and an input over its
\* alphabet the tape of every trace entry equals the input, the head starts
\* at 0, advances by one per consumed symbol and never decreases, the state
\* is always one of states, the trace only grows by appending, and the
\* decider record is unchanged.
C19_RunFrame == []RunInv /\ [][RunStep]_vars

\* A run over the alphabet consumed two symbols and decided.
C19_Witness ==
    /\ RunOverAlphabet
    /\ sim.pc = "done"
    /\ sim.head = 2
    /\ Len(sim.configs) = 4
    /\ NumStates(dfa) = 2
    /\ sim.configs[2].state # sim.configs[3].state

\* ---------------------------------------------------------------------------
\* Claims about the emptiness check
\* ---------------------------------------------------------------------------
\* The states reachable from the states of S by zero or more transitions.
RECURSIVE ReachableFrom(_, _)
ReachableFrom(d, S) ==
    LET T == S \cup {d.transitions.props[q].props[sym] :
                        q \in S, sym \in Range(d.alphabet)}
    IN  IF T = S THEN S ELSE ReachableFrom(d, T)

NoFinalReachable(d) == ReachableFrom(d, {d.start}) \cap Range(d.finals) = {}

EmptyEnded == bfs # Idle /\ bfs.pc = "done"

\* C8: dfaRecognizesEmpty returns true exactly when no final state is
\* reachable from start by zero or more transitions.
C8_EmptyIffNoFinalReachable ==
    /\ bfs # Idle => bfs.pc \in {"loop", "done"}
    /\ EmptyEnded => (bfs.result = NoFinalReachable(dfa))

\* The check returned true on a DFA that has a final state, an unreachable
\* one, and a transition of the start state to itself.
C8_Witness ==
    /\ EmptyEnded
    /\ bfs.result = TRUE
    /\ dfa.finals # <<>>
    /\ NumStates(dfa) = 2
    /\ bfs.dequeues = 1

\* The traversal's bookkeeping: no state is in the queue twice, every queued
\* state is in visited, every visited state is reachable from start, every
\* visited state was enqueued exactly once (it is in the queue or was
\* dequeued), and there were at most as many dequeues as states.
TraversalInv ==
    bfs # Idle =>
        /\ \A i, j \in 1..Len(bfs.queue) :
              bfs.queue[i] = bfs.queue[j] => i = j
        /\ Range(bfs.queue) \subseteq bfs.visited
        /\ bfs.visited \subseteq ReachableFrom(dfa, {dfa.start})
        /\ Cardinality(bfs.visited) = bfs.dequeues + Len(bfs.queue)
        /\ bfs.dequeues <= NumStates(dfa)

\* Every pass through the loop ends the call or dequeues one more state.
TraversalProgress ==
    (bfs # Idle /\ bfs.pc = "loop") =>
        \/ bfs'.pc = "done"
        \/ bfs'.pc = "loop" /\ bfs'.dequeues = bfs.dequeues + 1

\* C17: during dfaRecognizesEmpty on a valid DFA every state is enqueued at
\* most once and dequeued at most once, every queued state is in visited,
\* every visited state is reachable from start, and the number of dequeues
\* never exceeds the number of states; each pass through the loop returns or
\* dequeues a state, so the call ends within |states| + 1 passes.
C17_TraversalBounded == []TraversalInv /\ [][TraversalProgress]_vars

\* A call ended after it dequeued both states of a two-state DFA.
C17_Witness ==
    /\ EmptyEnded
    /\ NumStates(dfa) = 2
    /\ bfs.dequeues = 2
    /\ bfs.visited = {0, 1}
    /\ bfs.queue = <<>>

\* The states dequeued so far.
Dequeued == bfs.visited \ Range(bfs.queue)

\* While the loop runs no dequeued state is final; a call that returned false
\* dequeued exactly one final state.
FirstFinalStops ==
    bfs # Idle =>
        /\ bfs.pc = "loop" => Dequeued \cap Range(dfa.finals) = {}
        /\ (bfs.pc = "done" /\ ~bfs.result) =>
              Cardinality(Dequeued \cap Range(dfa.finals)) = 1

\* The pass that dequeues a final state returns false and does nothing else:
\* visited is unchanged and the queue only loses its head.  After the return
\* the locals never change.
ShortCircuit ==
    /\ (bfs # Idle /\ bfs.pc = "loop" /\ Len(bfs.queue) > 0
          /\ Head(bfs.queue) \in Range(dfa.finals)) =>
            /\ bfs'.pc = "done"
            /\ bfs'.result = FALSE
            /\ bfs'.visited = bfs.visited
            /\ bfs'.queue = Tail(bfs.queue)
            /\ bfs'.dequeues = bfs.dequeues + 1
    /\ (bfs # Idle /\ bfs.pc = "done") => bfs' = bfs

\* C18: dfaRecognizesEmpty stops at the first final state it dequeues and
\* returns false at once, without expanding that state's successors and
\* without dequeuing or expanding any other state afterwards.
C18_ShortCircuit == []FirstFinalStops /\ [][ShortCircuit]_vars

\* A call returned false for a final start state whose successor, a
\* reachable state, was never visited.
C18_Witness ==
    /\ EmptyEnded
    /\ bfs.result = FALSE
    /\ bfs.dequeues = 1
    /\ bfs.visited = {dfa.start}
    /\ ReachableFrom(dfa, {dfa.start}) # bfs.visited

\* The input strings over the alphabet, of at most len characters.
InputsOver(alphabet, len) == UNION {[1..l -> Range(alphabet)] : l \in 0..len}

Decides(d, w, decision) ==
    LET r == simulateTM(convertDFAtoTM(d), w)
    IN  r.pc = "done" /\ r.decision = decision

\* C9: dfaRecognizesEmpty returns true exactly when simulateTM decides REJECT
\* on every input string over the alphabet, and returns false exactly when it
\* decides ACCEPT on some string shorter than the number of states.
C9_EmptinessAgreesWithSimulator ==
    EmptyEnded =>
        /\ bfs.result = (\A w \in InputsOver(dfa.alphabet, MaxLen) :
                            Decides(dfa, w, "REJECT"))
        /\ (~bfs.result) = (\E w \in InputsOver(dfa.alphabet, NumStates(dfa) - 1) :
                            Decides(dfa, w, "ACCEPT"))

\* ---------------------------------------------------------------------------
\* Claims about the blank symbol
\* ---------------------------------------------------------------------------

\* C12: the blank symbol attached by convertDFAtoTM is distinct from every
\* symbol of the DFA's alphabet.
C12_BlankOutsideAlphabet ==
    tm # Idle => tm.blank \notin Range(dfa.alphabet)

\* The last entry of the trace of a run that ended with a decision.
LastConfig == sim.configs[Len(sim.configs)]

\* C13: the terminal decision entry is produced with the head at
\* len(input), never at a position inside the input.
C13_DecisionOnlyPastEnd ==
    (sim # Idle /\ sim.pc = "done") =>
        /\ LastConfig.action.label = "Decision"
        /\ LastConfig.head = Len(input)

\* ---------------------------------------------------------------------------
\* Claims about the independence of the produced DFAs
\* ---------------------------------------------------------------------------
\* A pull appends the DFA the cursor stands for, whatever the consumer wrote
\* before, and changes none of the DFAs produced earlier; a write of the
\* consumer changes no DFA but the one written to.
IndependentStep ==
    /\ Len(produced') = Len(produced) + 1 =>
          /\ produced'[Len(produced')] = YieldedDFA(gen')
          /\ SubSeq(produced', 1, Len(produced)) = produced
    /\ Len(produced') = Len(produced) =>
          \A i, j \in 1..Len(produced) :
              (produced'[i] # produced[i] /\ produced'[j] # produced[j]) =>
                  i = j

\* C14: each produced DFA is an independent, freshly constructed value: a
\* consumer's modification of a produced DFA changes no other produced DFA
\* and no DFA produced later, and advancing the enumerator changes no DFA
\* produced earlier.
C14_ProducedIndependent == [][IndependentStep]_vars

\* ---------------------------------------------------------------------------
\* Claims about repeated validation
\* ---------------------------------------------------------------------------
\* All calls of validateDFA on the description returned the same value.
SameResults ==
    \A i, j \in 1..Len(results) : results[i].value = results[j].value

====
